---- MODULE Spec2Model ----
(***************************************************************************)
(* A model of QCompressPDF (src/compress_qt.py):                           *)
(*   - PreviewDialog.split_pdf, the size-driven splitter of the compressed *)
(*     document (SplitSpec);                                               *)
(*   - CompressThread.run and CompressThread.parse_progress_line, the      *)
(*     worker that drives the external Ghostscript process (JobSpec).      *)
(*                                                                         *)
(* Sizes are counted in units of half a megabyte, so that the 5 MB budget  *)
(* and the 4.5 MB greedy margin of split_pdf are the integers 10 and 9.    *)
(* Pages are numbered from 0 inside split_pdf, as in the code; a written   *)
(* part records its 1-based inclusive page range.                          *)
(***************************************************************************)
EXTENDS Integers, Sequences, FiniteSets, TLC

VARIABLES
    \* ---- PreviewDialog.split_pdf ----
    pageSize,       \* the compressed document: pageSize[i] is the size of page i
    sp_pc,          \* position inside split_pdf
    split_outcome,  \* how split_pdf returned
    resp,           \* the answer to "File Size OK": "none" (not asked) | "Yes" | "No"
    current_part,   \* index of the next page to add (0-based)
    split_files,    \* the parts moved to their output path, in order
    temp_part_file, \* the temporary part file awaiting its move (or NoPart)
    output_file,    \* the output name the pending part is to be moved to
    tempFiles,      \* temporary part files that exist on disk
    nextTemp,       \* number of temporary part files created so far
    fs,             \* the output directory: name -> "absent" | "old" | "part"
    \* ---- CompressThread and the loading dialog of main ----
    pc,             \* position of the worker inside CompressThread.run
    dpi,            \* self.dpi
    total_pages,    \* self.total_pages
    current_page,   \* self.current_page
    events,         \* the signals emitted so far (progress and finished), in order
    temp_input,     \* whether run has assigned temp_input a path
    temp_input_file,\* the staged copy on disk: "absent" | "exists"
    process,        \* the Ghostscript child: "none" | "alive" | "exited"
    return_code,    \* process.poll(): NoCode while the child has not exited
    out_file,       \* self.out_file on disk: "absent" | "empty" | "nonempty"
    lines_read,     \* number of output lines read from the child
    loading,        \* the modal progress dialog: "none" | "open" | "closed" | "dismissed"
    cancel_requested, \* the user dismissed the progress dialog while the job ran
    cleanup_log,    \* the cleanup errors the finally block has printed
    launches,       \* number of times run has called subprocess.Popen
    \* ---- parse_progress_line taken alone ----
    gs_line,        \* the line handed to parse_progress_line
    \* ---- main: the controller and its worker threads ----
    main_pc,        \* position of the GUI thread inside main
    threads,        \* CompressThread k: "unstarted" | "running" | "launched" |
                    \*   "reported" | "returned"
    launched,       \* number of times thread k has called subprocess.Popen
    outcome,        \* the result thread k emitted: "none" | "Success" | "Failed"
    thread,         \* number of the CompressThread main holds (0: none yet)
    result,         \* the dict the on_finished closures write
    pending,        \* finished signals emitted and not yet handled by on_finished
    temp_output_file, \* main's temporary output file: "absent" | "present"
    written_by      \* the thread whose engine wrote that file (0: no file)

splitVars == <<pageSize, sp_pc, split_outcome, resp, current_part, split_files,
               temp_part_file, output_file, tempFiles, nextTemp, fs>>

jobVars == <<pc, dpi, total_pages, current_page, events, temp_input,
             temp_input_file, process, return_code, out_file, lines_read,
             loading, cancel_requested, cleanup_log, launches>>

classifyVars == <<gs_line>>

mainVars == <<main_pc, threads, launched, outcome, thread, result, pending,
              temp_output_file, written_by>>

\* The variables of CompressThread.run that main does not touch.
runVars == <<pc, total_pages, current_page, events, temp_input,
             temp_input_file, process, return_code, out_file, lines_read,
             cancel_requested, cleanup_log, launches>>

vars == <<splitVars, jobVars, classifyVars, mainVars>>

(***************************************************************************)
(* Bounds of the model.                                                    *)
(***************************************************************************)
MaxPages == 3       \* documents of 0..MaxPages pages
MaxParts == 3       \* split_pdf is followed for at most MaxParts written parts
MaxCount == 2       \* get_pdf_page_count reports 0..MaxCount pages
MaxLines == 3       \* the child prints at most MaxLines lines before it exits
MaxJobs == 3        \* main starts at most MaxJobs CompressThreads

(***************************************************************************)
(* Program constants of split_pdf, in half-megabytes.                      *)
(***************************************************************************)
Budget == 10        \* "actual_size > 5", "total_size <= 5"
Margin == 9         \* "part_size / 1024 / 1024 < 4.5"
MinSplitPages == 2  \* "total_pages < 2"

PageSizes == {1, 4, 6, 11}

(***************************************************************************)
(* Program constants of the compression job.                               *)
(***************************************************************************)
MinDpi == 10        \* "self.slider.setRange(10, 600)"
MaxDpi == 600
NoCode == -1        \* process.poll() is None

DpiValues == {MinDpi, MaxDpi}

NoPart == [tmp |-> -1, lo |-> 0, hi |-> 0, size |-> 0]

\* Output names: k is "<base>_k<ext>" for k >= 1, 0 is a name the user types.
Names == 0 .. MaxParts

RECURSIVE SumSizes(_, _, _)
\* Serialized size of a writer holding pages lo..hi-1 (0-based, hi exclusive).
SumSizes(sizes, lo, hi) ==
    IF lo >= hi THEN 0 ELSE sizes[lo + 1] + SumSizes(sizes, lo + 1, hi)

total_pages_split == Len(pageSize)

total_size == SumSizes(pageSize, 0, total_pages_split)

RECURSIVE InnerLoop(_, _, _)
\* The page-adding loop: part_size is tested but never updated by the code.
InnerLoop(cur, part_size, page_count) ==
    IF cur < total_pages_split /\ (part_size < Margin \/ page_count = 0)
    THEN InnerLoop(cur + 1, part_size, page_count + 1)
    ELSE [cur |-> cur, page_count |-> page_count]

\* First page (0-based) of the resealed part: "range(current_part - page_count + 1, ...)"
\* evaluated after "current_part -= 1".
ResealFrom(cur, page_count) == (cur - 1) - page_count + 1

\* Exclusive end of the resealed part: the last page is dropped.
ResealTo(cur) == cur - 1


\* A reset that keeps the position reached by the page-adding loop.
ResealCurrentKept(cur, page_count) == cur

\* "current_part = current_part - page_count + 1  # Reset to try again"
ResealCurrent(cur, page_count) == (cur - 1) - page_count + 1


\* The page check off by one.
InsufficientPagesOffByOne(n) == n < MinSplitPages - 1

\* "if total_pages < 2": the document cannot be split.
InsufficientPages(n) == n < MinSplitPages

\* "if actual_size > 5 and page_count > 1"
OverBudget(actual_size, page_count) == actual_size > Budget /\ page_count > 1

\* The documents split_pdf is run on: 0..MaxPages pages, every size assignment.
Documents == UNION {[1 .. n -> PageSizes] : n \in 0 .. MaxPages}

\* Output directories at the start: the first part's default name and the name
\* the user may type can already be taken.
InitialDirs ==
    {[n \in Names |-> IF n \in taken THEN "old" ELSE "absent"] : taken \in SUBSET {0, 1}}

(***************************************************************************)
(* Engine output lines.  A line (after strip()) is a sequence of tokens    *)
(* separated by single spaces: a word, a run of decimal digits, or a gap   *)
(* (additional white space between two tokens).                            *)
(***************************************************************************)
Word(w) == [w |-> w, d |-> <<>>]
Digits(d) == [w |-> "#", d |-> d]
Gap == [w |-> " ", d |-> <<>>]

IsNum(t) == t.w = "#"
IsGap(t) == t.w = " "

\* str.lower() / re.IGNORECASE on the words of the vocabulary.
Lower(w) ==
    CASE w = "Processing" -> "processing"
      [] w = "Page" -> "page"
      [] w = "%%Page:" -> "%%page:"
      [] w = "Loading" -> "loading"
      [] w = "Writing" -> "writing"
      [] OTHER -> w

RECURSIVE ParseInt(_)
\* int(match.group(1)) on a run of decimal digits.
ParseInt(d) ==
    IF d = <<>> THEN 0
    ELSE 10 * ParseInt(SubSeq(d, 1, Len(d) - 1)) + d[Len(d)]

\* Words whose text ends in "page" / "processing" (a regex may match inside a word).
EndsWithPage(t) == Lower(t.w) \in {"page", "showpage"}
EndsWithProcessing(t) == Lower(t.w) = "processing"

\* Index of the first token after i that is not a gap, or 0.
NextNonGap(line, i) ==
    LET js == {j \in (i + 1) .. Len(line) : ~IsGap(line[j])}
    IN  IF js = {} THEN 0 ELSE CHOOSE j \in js : \A k \in js : j <= k

Min(S) == CHOOSE x \in S : \A y \in S : x <= y
Max(S) == CHOOSE x \in S : \A y \in S : x >= y

\* r"Processing pages \d+ through (\d+)": the captured digits' token, or 0.
MatchThrough(line) ==
    LET is == {i \in 1 .. Len(line) - 4 :
                 /\ EndsWithProcessing(line[i])
                 /\ Lower(line[i + 1].w) = "pages"
                 /\ IsNum(line[i + 2])
                 /\ Lower(line[i + 3].w) = "through"
                 /\ IsNum(line[i + 4])}
    IN  IF is = {} THEN 0 ELSE Min(is) + 4

\* r"Page (\d+)" and r"page (\d+)": "page", one space, digits; leftmost match.
MatchPageSpace(line) ==
    LET is == {i \in 1 .. Len(line) - 1 :
                 EndsWithPage(line[i]) /\ IsNum(line[i + 1])}
    IN  IF is = {} THEN 0 ELSE Min(is) + 1

\* r"%%Page:\s*(\d+)"
MatchDscPage(line) ==
    LET is == {i \in 1 .. Len(line) :
                 /\ Lower(line[i].w) = "%%page:"
                 /\ NextNonGap(line, i) # 0
                 /\ IsNum(line[NextNonGap(line, i)])}
    IN  IF is = {} THEN 0 ELSE NextNonGap(line, Min(is))

\* The positions where r"page\s+(\d+)" matches, as the index of the "page" token.
PageGapNum(line) ==
    {i \in 1 .. Len(line) :
        /\ EndsWithPage(line[i])
        /\ NextNonGap(line, i) # 0
        /\ IsNum(line[NextNonGap(line, i)])}

\* r"showpage,\s*page\s+(\d+)"
MatchShowpage(line) ==
    LET is == {i \in 1 .. Len(line) :
                 /\ Lower(line[i].w) = "showpage,"
                 /\ NextNonGap(line, i) \in PageGapNum(line)
                 /\ Lower(line[NextNonGap(line, i)].w) = "page"}
    IN  IF is = {} THEN 0 ELSE NextNonGap(line, NextNonGap(line, Min(is)))

\* r".*page\s+(\d+)": the greedy ".*" makes it the rightmost match.
MatchAnyPage(line) ==
    LET is == PageGapNum(line)
    IN  IF is = {} THEN 0 ELSE NextNonGap(line, Max(is))

\* r".*Page\s+(\d+)\s+.*": as above, with white space (so a token) after the digits.
MatchPageThenMore(line) ==
    LET is == {i \in PageGapNum(line) : NextNonGap(line, i) < Len(line)}
    IN  IF is = {} THEN 0 ELSE NextNonGap(line, Max(is))

\* r".*processing\s+page\s+(\d+)"
MatchProcessingPage(line) ==
    LET is == {i \in 1 .. Len(line) :
                 /\ EndsWithProcessing(line[i])
                 /\ NextNonGap(line, i) \in PageGapNum(line)
                 /\ Lower(line[NextNonGap(line, i)].w) = "page"}
    IN  IF is = {} THEN 0 ELSE NextNonGap(line, NextNonGap(line, Max(is)))

\* The pattern list, in order: <<is a "through" pattern, token index of group 1>>.
patterns(line) ==
    << <<TRUE, MatchThrough(line)>>,
       <<FALSE, MatchPageSpace(line)>>,
       <<FALSE, MatchPageSpace(line)>>,
       <<FALSE, MatchDscPage(line)>>,
       <<FALSE, MatchShowpage(line)>>,
       <<FALSE, MatchAnyPage(line)>>,
       <<FALSE, MatchPageThenMore(line)>>,
       <<FALSE, MatchProcessingPage(line)>> >>

\* The first pattern of the list that matches the line, or 0.
FirstMatch(line) ==
    LET ks == {k \in 1 .. Len(patterns(line)) : patterns(line)[k][2] # 0}
    IN  IF ks = {} THEN 0 ELSE Min(ks)

Progress(current, total) ==
    [kind |-> "progress", current |-> current, total |-> total,
     success |-> FALSE, detail |-> ""]

Finished(success, detail) ==
    [kind |-> "finished", current |-> 0, total |-> 0,
     success |-> success, detail |-> detail]


\* A "through" line taken at its word, whatever total is already known.
AcceptAnyTotal(page_num, total) == page_num # total

\* "if page_num > self.total_pages": a "through" line revises the total.
AcceptTotal(page_num, total) == page_num > total


\* A current page taken from the line as it is.
ClampPageNone(page_num, total) == page_num

\* "min(page_num, self.total_pages) if self.total_pages > 0 else page_num"
ClampPage(page_num, total) ==
    IF total > 0 THEN (IF page_num < total THEN page_num ELSE total) ELSE page_num

\* The progress event of an accepted "through" line.
TotalEvent(total) == Progress(0, total)

\* "any(keyword in line.lower() for keyword in ['processing', 'page', 'writing'])"
HasKeyword(line) ==
    \E i \in 1 .. Len(line) :
       Lower(line[i].w) \in {"processing", "page", "pages", "%%page:",
                             "showpage", "showpage,", "writing"}

\* A keyword line counted as progress: the current page is announced again.
NoMatchKeywordAnnounced(line, total, current) ==
    [total_pages |-> total, current_page |-> current,
     emitted |-> IF HasKeyword(line) /\ total > 0
                 THEN <<Progress(current, total)>> ELSE <<>>]

\* No pattern matched: a keyword line is printed, nothing is stored or emitted.
NoMatch(line, total, current) ==
    [total_pages |-> total, current_page |-> current, emitted |-> <<>>]

\* parse_progress_line: the new total_pages and current_page and the events emitted.
parse_progress_line(line, total, current) ==
    LET k == FirstMatch(line)
        page_num == ParseInt(line[patterns(line)[k][2]].d)
    IN  IF k = 0
        THEN NoMatch(line, total, current)
        ELSE IF patterns(line)[k][1]
        THEN IF AcceptTotal(page_num, total)
             THEN [total_pages |-> page_num, current_page |-> current,
                   emitted |-> <<TotalEvent(page_num)>>]
             ELSE [total_pages |-> total, current_page |-> current, emitted |-> <<>>]
        ELSE [total_pages |-> total,
              current_page |-> ClampPage(page_num, total),
              emitted |-> IF total > 0
                          THEN <<Progress(ClampPage(page_num, total), total)>>
                          ELSE <<>>]

\* The lines the child prints in the model.
Lines ==
    { <<Word("Processing"), Word("pages"), Digits(<<1>>), Word("through"),
        Digits(<<3>>)>>,
      <<Word("processing"), Word("pages"), Digits(<<1>>), Word("through"),
        Digits(<<1>>)>>,
      <<Word("Page"), Digits(<<2>>)>>,
      <<Word("page"), Digits(<<0, 1>>)>>,
      <<Word("Page"), Digits(<<4>>)>>,
      <<Word("%%Page:"), Digits(<<2>>), Digits(<<2>>)>>,
      <<Word("Writing"), Word("page"), Gap, Digits(<<3>>)>>,
      <<Word("Loading"), Word("font"), Word("cache")>>,
      <<Word("Processing"), Word("fonts")>> }

\* main before the first DPI dialog: no thread, no result, no temporary output.
MainIdle ==
    /\ main_pc = "select_dpi"
    /\ threads = [k \in 1 .. MaxJobs |-> "unstarted"]
    /\ launched = [k \in 1 .. MaxJobs |-> 0]
    /\ outcome = [k \in 1 .. MaxJobs |-> "none"]
    /\ thread = 0
    /\ result = [success |-> FALSE, error |-> ""]
    /\ pending = {}
    /\ temp_output_file = "absent"
    /\ written_by = 0

JobIdle ==
    /\ pc = "created"
    /\ total_pages = 0
    /\ current_page = 0
    /\ events = <<>>
    /\ temp_input = FALSE
    /\ temp_input_file = "absent"
    /\ process = "none"
    /\ return_code = NoCode
    /\ out_file = "absent"
    /\ lines_read = 0
    /\ loading = "none"
    /\ cancel_requested = FALSE
    /\ cleanup_log = {}
    /\ launches = 0

SplitIdle ==
    /\ sp_pc = "start"
    /\ split_outcome = "none"
    /\ resp = "none"
    /\ current_part = 0
    /\ split_files = <<>>
    /\ temp_part_file = NoPart
    /\ output_file = 0
    /\ tempFiles = {}
    /\ nextTemp = 0

SplitInit ==
    /\ pageSize \in Documents
    /\ fs \in InitialDirs
    /\ SplitIdle
    /\ dpi = MinDpi
    /\ JobIdle
    /\ gs_line = <<>>
    /\ MainIdle

\* A document within the budget is never split, whatever the answer.
DeclinedWithoutAsking(size, answer) == size <= Budget

\* "if total_size <= 5: resp = QMessageBox.question(...); if resp == QMessageBox.No: return"
Declined(size, answer) == size <= Budget /\ answer = "No"

\* split_pdf up to the outer loop: the under-budget confirmation and the page check.
SplitBegin ==
    /\ sp_pc = "start"
    /\ \E answer \in {"Yes", "No"} :
         /\ resp' = IF total_size <= Budget THEN answer ELSE "none"
         /\ IF Declined(total_size, answer)
            THEN /\ sp_pc' = "returned"
                 /\ split_outcome' = "declined"
            ELSE IF InsufficientPages(total_pages_split)
            THEN /\ sp_pc' = "returned"
                 /\ split_outcome' = "insufficient"
            ELSE /\ sp_pc' = "outer"
                 /\ split_outcome' = "none"
    /\ UNCHANGED <<pageSize, current_part, split_files, temp_part_file,
                   output_file, tempFiles, nextTemp, fs>>

\* "shutil.move(temp_part_file.name, output_file); split_files.append(output_file)"
MoveEffect(part, name) ==
    /\ fs' = [fs EXCEPT ![name] = "part"]
    /\ split_files' = Append(split_files,
                             [name |-> name, lo |-> part.lo, hi |-> part.hi,
                              size |-> part.size])
    /\ temp_part_file' = NoPart
    /\ sp_pc' = "outer"

\* One iteration of "while current_part < total_pages", up to the file-exists check.
BuildPart ==
    /\ sp_pc = "outer"
    /\ current_part < total_pages_split
    /\ Len(split_files) < MaxParts
    /\ LET r == InnerLoop(current_part, 0, 0)
           actual_size == SumSizes(pageSize, current_part, r.cur)
           reseal == OverBudget(actual_size, r.page_count)
           from == IF reseal THEN ResealFrom(r.cur, r.page_count) ELSE current_part
           to == IF reseal THEN ResealTo(r.cur) ELSE r.cur
           cur == IF reseal THEN ResealCurrent(r.cur, r.page_count) ELSE r.cur
           tmp == IF reseal THEN nextTemp + 1 ELSE nextTemp
           part == [tmp |-> tmp, lo |-> from + 1, hi |-> to,
                    size |-> SumSizes(pageSize, from, to)]
           created == IF reseal THEN {nextTemp, nextTemp + 1} ELSE {nextTemp}
           part_num == Len(split_files) + 1
       IN  /\ current_part' = cur
           /\ nextTemp' = tmp + 1
           /\ output_file' = part_num
           /\ IF fs[part_num] # "absent"
              THEN /\ temp_part_file' = part
                   /\ tempFiles' = tempFiles \cup created
                   /\ sp_pc' = "exists"
                   /\ UNCHANGED <<fs, split_files>>
              ELSE /\ tempFiles' = (tempFiles \cup created) \ {tmp}
                   /\ MoveEffect(part, part_num)
    /\ UNCHANGED <<pageSize, split_outcome, resp>>

\* "File Exists" answered Yes: the pending part overwrites the file.
ExistsOverwrite ==
    /\ sp_pc = "exists"
    /\ tempFiles' = tempFiles \ {temp_part_file.tmp}
    /\ MoveEffect(temp_part_file, output_file)
    /\ UNCHANGED <<pageSize, split_outcome, current_part, output_file,
                   nextTemp, resp>>

\* "File Exists" answered No and a new name typed: the loop tests the new name.
ExistsRename ==
    /\ sp_pc = "exists"
    /\ \E new_file \in Names \ {output_file} :
         /\ output_file' = new_file
         /\ IF fs[new_file] # "absent"
            THEN UNCHANGED <<sp_pc, temp_part_file, tempFiles, fs, split_files>>
            ELSE /\ tempFiles' = tempFiles \ {temp_part_file.tmp}
                 /\ MoveEffect(temp_part_file, new_file)
    /\ UNCHANGED <<pageSize, split_outcome, current_part, nextTemp, resp>>

\* "File Exists" answered Cancel: the pending temporary file is unlinked.
ExistsCancel ==
    /\ sp_pc = "exists"
    /\ tempFiles' = tempFiles \ {temp_part_file.tmp}
    /\ temp_part_file' = NoPart
    /\ sp_pc' = "returned"
    /\ split_outcome' = "cancelled"
    /\ UNCHANGED <<pageSize, current_part, split_files, output_file, nextTemp,
                   fs, resp>>

\* The outer loop ends: the results are shown and split_pdf returns.
SplitFinish ==
    /\ sp_pc = "outer"
    /\ current_part >= total_pages_split
    /\ sp_pc' = "returned"
    /\ split_outcome' = "complete"
    /\ UNCHANGED <<pageSize, current_part, split_files, temp_part_file,
                   output_file, tempFiles, nextTemp, fs,
                   resp>>

SplitNext ==
    \/ SplitBegin /\ UNCHANGED <<jobVars, classifyVars, mainVars>>
    \/ BuildPart /\ UNCHANGED <<jobVars, classifyVars, mainVars>>
    \/ ExistsOverwrite /\ UNCHANGED <<jobVars, classifyVars, mainVars>>
    \/ ExistsRename /\ UNCHANGED <<jobVars, classifyVars, mainVars>>
    \/ ExistsCancel /\ UNCHANGED <<jobVars, classifyVars, mainVars>>
    \/ SplitFinish /\ UNCHANGED <<jobVars, classifyVars, mainVars>>

SplitSpec == SplitInit /\ [][SplitNext]_vars

(***************************************************************************)
(* CompressThread.run                                                      *)
(***************************************************************************)
\* Messages of the failures run reports (str(e) of the exception caught).
CopyError == "[Errno 2] No such file or directory"
LaunchError == "[Errno 2] No such file or directory: 'gs'"
DecodeError == "'utf-8' codec can't decode byte"
ExitError == "Process failed with code"
NotCreatedError == "Output file was not created"
EmptyError == "Output file is empty"
\* Messages the finally block prints when a cleanup step raises.
ProcessCleanupError == "Error cleaning up process"
RemoveError == "Error removing temp file"

JobInit ==
    /\ dpi \in DpiValues
    /\ JobIdle
    /\ pageSize = <<>>
    /\ fs = [n \in Names |-> "absent"]
    /\ SplitIdle
    /\ gs_line = <<>>
    /\ MainIdle

\* "self.finished.emit(success, detail)"; on_finished closes the progress dialog.
EmitFinished(success, detail) ==
    /\ events' = Append(events, Finished(success, detail))
    /\ loading' = IF loading = "open" THEN "closed" ELSE loading

\* main: "thread.start(); loading.exec()"
Start ==
    /\ pc = "created"
    /\ pc' = "started"
    /\ loading' = "open"
    /\ UNCHANGED <<dpi, total_pages, current_page, events, temp_input,
                   temp_input_file, process, return_code, out_file, lines_read,
                   cancel_requested, cleanup_log, launches>>

\* The first progress event emitted whatever the page counter reported.
InitialEventsAlways(count) == <<Progress(0, count)>>

\* The first progress event: "if self.total_pages > 0: self.progress.emit(0, ...)".
InitialEvents(count) == IF count > 0 THEN <<Progress(0, count)>> ELSE <<>>

\* run: the page count and the initial progress event.
CountPages ==
    /\ pc = "started"
    /\ \E count \in 0 .. MaxCount :
         /\ total_pages' = count
         /\ events' = events \o InitialEvents(count)
    /\ pc' = "counted"
    /\ UNCHANGED <<dpi, current_page, temp_input, temp_input_file, process,
                   return_code, out_file, lines_read, loading, cancel_requested,
                   cleanup_log, launches>>

\* run: "shutil.copy2(self.in_file, temp_input)", which may fail half-way.
Stage ==
    /\ pc = "counted"
    /\ temp_input' = TRUE
    /\ \/ /\ temp_input_file' = "exists"
          /\ pc' = "staged"
          /\ UNCHANGED <<events, loading>>
       \/ /\ temp_input_file' \in {"absent", "exists"}
          /\ EmitFinished(FALSE, CopyError)
          /\ pc' = "finally"
    /\ UNCHANGED <<dpi, total_pages, current_page, process, return_code,
                   out_file, lines_read, cancel_requested, cleanup_log,
                   launches>>

\* run: "process = subprocess.Popen(cmd_list, **kwargs)"
Launch ==
    /\ pc = "staged"
    /\ launches' = launches + 1
    /\ \/ /\ process' = "alive"
          /\ pc' = "reading"
          /\ UNCHANGED <<events, loading>>
       \/ /\ process' = "none"
          /\ EmitFinished(FALSE, LaunchError)
          /\ pc' = "finally"
    /\ UNCHANGED <<dpi, total_pages, current_page, temp_input, temp_input_file,
                   return_code, out_file, lines_read, cancel_requested,
                   cleanup_log>>

\* run: one line read from the child and handed to parse_progress_line.
ReadLine ==
    /\ pc = "reading"
    /\ lines_read < MaxLines
    /\ \E line \in Lines :
         LET r == parse_progress_line(line, total_pages, current_page)
         IN  /\ total_pages' = r.total_pages
             /\ current_page' = r.current_page
             /\ events' = events \o r.emitted
    /\ lines_read' = lines_read + 1
    /\ UNCHANGED <<pc, dpi, temp_input, temp_input_file, process, return_code,
                   out_file, loading, cancel_requested, cleanup_log,
                   launches>>

\* The child exits and the read loop sees the end of its output.
ReadEnd ==
    /\ pc = "reading"
    /\ process' = "exited"
    /\ return_code' \in {0, 1}
    /\ out_file' \in {"absent", "empty", "nonempty"}
    /\ pc' = "exited"
    /\ UNCHANGED <<dpi, total_pages, current_page, events, temp_input,
                   temp_input_file, lines_read, loading, cancel_requested,
                   cleanup_log, launches>>

\* An exception inside the read loop (a line that cannot be decoded).
ReadError ==
    /\ pc = "reading"
    /\ EmitFinished(FALSE, DecodeError)
    /\ pc' = "finally"
    /\ UNCHANGED <<dpi, total_pages, current_page, temp_input, temp_input_file,
                   process, return_code, out_file, lines_read, cancel_requested,
                   cleanup_log, launches>>



\* Exit evaluation that looks at the output file before the exit code.
ExitEvaluationOutputFirst(code, out) ==
    IF out = "absent" THEN Finished(FALSE, NotCreatedError)
    ELSE IF out = "empty" THEN Finished(FALSE, EmptyError)
    ELSE IF code # 0 THEN Finished(FALSE, ExitError)
    ELSE Finished(TRUE, "")

\* Exit evaluation without the size check.
ExitEvaluationNoSizeCheck(code, out) ==
    IF code # 0 THEN Finished(FALSE, ExitError)
    ELSE IF out = "absent" THEN Finished(FALSE, NotCreatedError)
    ELSE Finished(TRUE, "")

\* The checks after the read loop, in order: exit code, output exists, output size.
ExitEvaluation(code, out) ==
    IF code # 0 THEN Finished(FALSE, ExitError)
    ELSE IF out = "absent" THEN Finished(FALSE, NotCreatedError)
    ELSE IF out = "empty" THEN Finished(FALSE, EmptyError)
    ELSE Finished(TRUE, "")


\* A final progress event that reports the last page seen.
FinalEventsLastSeen(total, current) ==
    IF total > 0 THEN <<Progress(current, total)>> ELSE <<>>

\* "if self.total_pages > 0: self.progress.emit(self.total_pages, self.total_pages)"
FinalEvents(total, current) == IF total > 0 THEN <<Progress(total, total)>> ELSE <<>>

\* The final progress event emitted after the result.
EvaluateEventsResultFirst(res, total, current) ==
    <<res>> \o (IF res.success THEN FinalEvents(total, current) ELSE <<>>)

\* The signals of the end of run, in order: on success the final progress event
\* comes before finished(True, ""); a failure emits the result alone.
EvaluateEvents(res, total, current) ==
    (IF res.success THEN FinalEvents(total, current) ELSE <<>>) \o <<res>>

\* run: exit evaluation, the final progress event and the finished signal.
Evaluate ==
    /\ pc = "exited"
    /\ LET res == ExitEvaluation(return_code, out_file)
       IN  /\ events' = events \o EvaluateEvents(res, total_pages, current_page)
           /\ loading' = IF loading = "open" THEN "closed" ELSE loading
    /\ pc' = "finally"
    /\ UNCHANGED <<dpi, total_pages, current_page, temp_input, temp_input_file,
                   process, return_code, out_file, lines_read, cancel_requested,
                   cleanup_log, launches>>


\* The removal nested under the process cleanup ("if process:").
RemoveAttemptedIfLaunched(assigned, file) ==
    assigned /\ file = "exists" /\ process # "none"

\* "if temp_input and os.path.exists(temp_input)": the removal is attempted.
RemoveAttempted(assigned, file) == assigned /\ file = "exists"

\* A cleanup error reported as a second result of the run.
TeardownEventsEscalated(waitFails, removeFails) ==
    IF waitFails THEN <<Finished(FALSE, ProcessCleanupError)>>
    ELSE IF removeFails THEN <<Finished(FALSE, RemoveError)>>
    ELSE <<>>

\* The signals of the finally block: both handlers only print the error.
TeardownEvents(waitFails, removeFails) == <<>>

\* The finally block: terminate the child and wait 5 s, remove the staged input;
\* an exception of either step is printed and dropped.
Teardown ==
    /\ pc = "finally"
    /\ \E exited, removed \in BOOLEAN :
         LET waitFails == process = "alive" /\ ~exited
             removeFails == RemoveAttempted(temp_input, temp_input_file) /\ ~removed
         IN  /\ process' = IF process = "alive" /\ exited THEN "exited" ELSE process
             /\ return_code' = IF process = "alive" /\ exited THEN 1 ELSE return_code
             /\ temp_input_file' =
                    IF RemoveAttempted(temp_input, temp_input_file) /\ removed
                    THEN "absent" ELSE temp_input_file
             /\ cleanup_log' =
                    cleanup_log
                    \cup (IF waitFails THEN {ProcessCleanupError} ELSE {})
                    \cup (IF removeFails THEN {RemoveError} ELSE {})
             /\ events' = events \o TeardownEvents(waitFails, removeFails)
    /\ pc' = "returned"
    /\ UNCHANGED <<dpi, total_pages, current_page, temp_input, out_file,
                   lines_read, loading, cancel_requested,
                   launches>>

\* The user dismisses the modal progress dialog while the worker runs; main then
\* blocks in thread.wait().  Nothing in run reads this.
DismissLoading ==
    /\ loading = "open"
    /\ pc = "reading"
    /\ loading' = "dismissed"
    /\ cancel_requested' = TRUE
    /\ UNCHANGED <<pc, dpi, total_pages, current_page, events, temp_input,
                   temp_input_file, process, return_code, out_file, lines_read,
                   cleanup_log, launches>>

JobNext ==
    \/ Start /\ UNCHANGED <<splitVars, classifyVars, mainVars>>
    \/ CountPages /\ UNCHANGED <<splitVars, classifyVars, mainVars>>
    \/ Stage /\ UNCHANGED <<splitVars, classifyVars, mainVars>>
    \/ Launch /\ UNCHANGED <<splitVars, classifyVars, mainVars>>
    \/ ReadLine /\ UNCHANGED <<splitVars, classifyVars, mainVars>>
    \/ ReadEnd /\ UNCHANGED <<splitVars, classifyVars, mainVars>>
    \/ ReadError /\ UNCHANGED <<splitVars, classifyVars, mainVars>>
    \/ Evaluate /\ UNCHANGED <<splitVars, classifyVars, mainVars>>
    \/ Teardown /\ UNCHANGED <<splitVars, classifyVars, mainVars>>
    \/ DismissLoading /\ UNCHANGED <<splitVars, classifyVars, mainVars>>

JobSpec == JobInit /\ [][JobNext]_vars

\* The worker thread keeps running and the child exits after finitely many lines.
JobFairSpec == JobSpec /\ WF_vars(JobNext)

(***************************************************************************)
(* parse_progress_line taken alone: one call, on every line of a wider set *)
(* and from every known total and current page (ClassifySpec).             *)
(***************************************************************************)
ClassifyLines ==
    Lines \cup
    { <<Word("Processing"), Word("pages"), Digits(<<1>>), Word("through"),
        Digits(<<4, 2>>)>>,
      <<Word("Page"), Digits(<<7>>)>>,
      <<Word("Processing"), Word("page"), Digits(<<2>>)>>,
      <<Word("Page"), Digits(<<2>>), Word("page"), Digits(<<1>>)>>,
      <<Word("showpage,"), Word("page"), Gap, Digits(<<3>>)>>,
      <<Word("Writing"), Word("output")>>,
      <<>> }

\* The totals known when a line arrives: unknown, small, and a long document.
KnownTotals == (0 .. MaxCount) \cup {42}

\* The worker is in its read loop with some total and current page.
ClassifyInit ==
    /\ gs_line \in ClassifyLines
    /\ total_pages \in KnownTotals
    /\ current_page \in 0 .. MaxCount
    /\ pc = "reading"
    /\ dpi = MinDpi
    /\ events = <<>>
    /\ temp_input = TRUE
    /\ temp_input_file = "exists"
    /\ process = "alive"
    /\ return_code = NoCode
    /\ out_file = "absent"
    /\ lines_read = 0
    /\ loading = "open"
    /\ cancel_requested = FALSE
    /\ cleanup_log = {}
    /\ launches = 1
    /\ pageSize = <<>>
    /\ fs = [n \in Names |-> "absent"]
    /\ SplitIdle
    /\ MainIdle

\* "self.parse_progress_line(line)"
Classify ==
    /\ pc = "reading"
    /\ lines_read = 0
    /\ LET r == parse_progress_line(gs_line, total_pages, current_page)
       IN  /\ total_pages' = r.total_pages
           /\ current_page' = r.current_page
           /\ events' = events \o r.emitted
    /\ lines_read' = 1
    /\ UNCHANGED <<pc, dpi, temp_input, temp_input_file, process, return_code,
                   out_file, loading, cancel_requested, cleanup_log, gs_line,
                   launches>>

ClassifyNext == Classify /\ UNCHANGED <<splitVars, mainVars>>

ClassifySpec == ClassifyInit /\ [][ClassifyNext]_vars

(***************************************************************************)
(* main: the controller.  It starts one CompressThread per DPI choice,     *)
(* runs the loading dialog, waits for the thread and shows the preview.    *)
(* A worker is followed through two steps here: run up to its              *)
(* finished.emit, and its finally block.  What PreviewDialog.split_pdf     *)
(* does inside the preview is SplitSpec.                                   *)
(***************************************************************************)
MainInit ==
    /\ MainIdle
    /\ dpi = MinDpi
    /\ pc = "created"
    /\ total_pages = 0
    /\ current_page = 0
    /\ events = <<>>
    /\ temp_input = FALSE
    /\ temp_input_file = "absent"
    /\ process = "none"
    /\ return_code = NoCode
    /\ out_file = "absent"
    /\ lines_read = 0
    /\ loading = "none"
    /\ cancel_requested = FALSE
    /\ cleanup_log = {}
    /\ launches = 0
    /\ pageSize = <<>>
    /\ fs = [n \in Names |-> "absent"]
    /\ SplitIdle
    /\ gs_line = <<>>

\* "loading = show_loading_dialog(None); thread = CompressThread(...);
\*  result = {...}; thread.start(); loading.exec()"
StartThread(new_dpi) ==
    /\ thread < MaxJobs
    /\ dpi' = new_dpi
    /\ thread' = thread + 1
    /\ threads' = [threads EXCEPT ![thread + 1] = "running"]
    /\ result' = [success |-> FALSE, error |-> ""]
    /\ loading' = "open"
    /\ main_pc' = "exec"

\* The first DPI dialog: cancelled, main returns; otherwise the first job starts.
SelectDpi ==
    /\ main_pc = "select_dpi"
    /\ \E d \in DpiValues, cancelled \in BOOLEAN :
         IF cancelled
         THEN /\ main_pc' = "done"
              /\ UNCHANGED <<dpi, thread, threads, result, loading>>
         ELSE StartThread(d)
    /\ UNCHANGED <<outcome, pending, temp_output_file, launched, written_by>>

\* The engine started a second time by a run that has already started it.
MayLaunchAgain(state) == state \in {"running", "launched"}

\* run reaches "subprocess.Popen" once, after counting and staging.
MayLaunch(state) == state = "running"

\* CompressThread.run of thread k up to and including "subprocess.Popen(...)".
ThreadLaunch(k) ==
    /\ MayLaunch(threads[k])
    /\ threads' = [threads EXCEPT ![k] = "launched"]
    /\ launched' = [launched EXCEPT ![k] = @ + 1]
    /\ UNCHANGED <<main_pc, outcome, thread, result, pending, temp_output_file,
                   dpi, loading, written_by>>

\* Exit evaluation accepts any file found at the output path:
\* "os.path.exists(self.out_file)" and "os.path.getsize(self.out_file) > 0".
OutputAccepted(file) == file = "present"

\* CompressThread.run of thread k up to "self.finished.emit(...)": staging
\* failed, or the engine has written the output (or not); the signal is on its
\* way to on_finished.
ThreadFinish(k) ==
    /\ threads[k] \in {"running", "launched"}
    /\ \E success \in BOOLEAN, error \in {CopyError, ExitError},
          wrote \in BOOLEAN :
         /\ threads[k] = "running" => (~success /\ error = CopyError /\ ~wrote)
         /\ threads[k] = "launched" => error = ExitError
         /\ temp_output_file' = IF wrote THEN "present" ELSE temp_output_file
         /\ written_by' = IF wrote THEN k ELSE written_by
         /\ success => OutputAccepted(temp_output_file')
         /\ outcome' = [outcome EXCEPT ![k] = IF success THEN "Success" ELSE "Failed"]
         /\ pending' = pending \cup
                {[success |-> success, error |-> IF success THEN "" ELSE error]}
    /\ threads' = [threads EXCEPT ![k] = "reported"]
    /\ UNCHANGED <<main_pc, thread, result, dpi, loading, launched>>

\* The finally block of thread k; run returns.
ThreadReturn(k) ==
    /\ threads[k] = "reported"
    /\ threads' = [threads EXCEPT ![k] = "returned"]
    /\ UNCHANGED <<main_pc, outcome, thread, result, pending, temp_output_file,
                   dpi, loading, launched, written_by>>

\* on_finished / on_finished_retry: store the result and close the loading
\* dialog, which ends loading.exec().
on_finished ==
    /\ \E m \in pending :
         /\ result' = [success |-> m.success, error |-> m.error]
         /\ pending' = pending \ {m}
    /\ loading' = IF loading = "open" THEN "closed" ELSE loading
    /\ main_pc' = IF main_pc = "exec" THEN "wait" ELSE main_pc
    /\ UNCHANGED <<threads, outcome, thread, temp_output_file, dpi, launched,
                   written_by>>

\* The user closes the loading dialog: loading.exec() returns before the result.
LoadingRejected ==
    /\ main_pc = "exec"
    /\ loading = "open"
    /\ loading' = "dismissed"
    /\ main_pc' = "wait"
    /\ UNCHANGED <<threads, outcome, thread, result, pending, temp_output_file,
                   dpi, launched, written_by>>

\* thread.wait() returning at once, whatever the thread is doing.
WaitReturnsAtOnce(state) == TRUE

\* "thread.wait()" returns once run has returned.
WaitReturns(state) == state = "returned"

\* The success test skipped: every result opens the preview.
CompressionFailedNever(r) == FALSE

\* 'if not result["success"]'
CompressionFailed(r) == ~r.success

\* 'if os.path.exists(temp_output_file): os.remove(temp_output_file)' raises
\* when the file is there and cannot be removed; main has no handler for it.
RemoveRaises(file, removed) == file = "present" /\ ~removed

\* The temporary output left in place when the job failed.
FailureCleanupSkipped(file) == file

\* The failure branch: the temporary output is removed.
FailureCleanup(file) == "absent"

\* The temporary output left in place when the preview is rejected.
RejectCleanupSkipped(file) == file

\* The preview rejected: the temporary output is removed.
RejectCleanup(file) == "absent"

\* "thread.wait()" and the test of the result: on failure the error box, the
\* temporary output is removed and main ends; otherwise the preview opens.
WaitAndCheck ==
    /\ main_pc = "wait"
    /\ WaitReturns(threads[thread])
    /\ \E removed \in BOOLEAN :
         IF CompressionFailed(result)
         THEN IF RemoveRaises(temp_output_file, removed)
              THEN /\ main_pc' = "raised"
                   /\ UNCHANGED <<temp_output_file, written_by>>
              ELSE /\ temp_output_file' = FailureCleanup(temp_output_file)
                   /\ written_by' = IF temp_output_file' = "absent" THEN 0
                                    ELSE written_by
                   /\ main_pc' = "done"
         ELSE /\ main_pc' = "preview"
              /\ UNCHANGED <<temp_output_file, written_by>>
    /\ UNCHANGED <<threads, outcome, thread, result, pending, dpi, loading,
                   launched>>

\* The preview accepted and the save flow: the temporary output is moved to the
\* final name, or the move fails and the preview opens again, or the user
\* cancels the "File Exists" prompt and the temporary output is removed.
PreviewAccept ==
    /\ main_pc = "preview"
    /\ \E how \in {"moved", "move_failed", "cancel"}, removed \in BOOLEAN :
         IF how = "move_failed"
         THEN UNCHANGED <<main_pc, temp_output_file, written_by>>
         ELSE IF how = "cancel" /\ RemoveRaises(temp_output_file, removed)
         THEN /\ main_pc' = "raised"
              /\ UNCHANGED <<temp_output_file, written_by>>
         ELSE /\ temp_output_file' = "absent"
              /\ written_by' = 0
              /\ main_pc' = "done"
    /\ UNCHANGED <<threads, outcome, thread, result, pending, dpi, loading,
                   launched>>

\* The preview rejected: the temporary output is removed and "Retry" is asked.
PreviewReject ==
    /\ main_pc = "preview"
    /\ \E removed \in BOOLEAN :
         IF RemoveRaises(temp_output_file, removed)
         THEN /\ main_pc' = "raised"
              /\ UNCHANGED <<temp_output_file, written_by>>
         ELSE /\ temp_output_file' = RejectCleanup(temp_output_file)
              /\ written_by' = IF temp_output_file' = "absent" THEN 0
                               ELSE written_by
              /\ main_pc' = "retry"
    /\ UNCHANGED <<threads, outcome, thread, result, pending, dpi, loading,
                   launched>>

\* "Do you want to retry with different settings?": No, or the DPI dialog
\* cancelled, ends main; otherwise a new thread starts on the same output path.
Retry ==
    /\ main_pc = "retry"
    /\ \E answer \in {"Yes", "No"}, d \in DpiValues, cancelled \in BOOLEAN :
         IF answer = "No" \/ cancelled
         THEN /\ main_pc' = "done"
              /\ UNCHANGED <<dpi, thread, threads, result, loading>>
         ELSE StartThread(d)
    /\ UNCHANGED <<outcome, pending, temp_output_file, launched, written_by>>

\* on_progress, called with total > 0:
\* "percent = min(100, (current * 100) // total)"
percent(current, total) == Min({100, (current * 100) \div total})

MainNext ==
    \/ SelectDpi /\ UNCHANGED <<splitVars, classifyVars, runVars>>
    \/ \E k \in 1 .. MaxJobs :
         ThreadLaunch(k) /\ UNCHANGED <<splitVars, classifyVars, runVars>>
    \/ \E k \in 1 .. MaxJobs :
         ThreadFinish(k) /\ UNCHANGED <<splitVars, classifyVars, runVars>>
    \/ \E k \in 1 .. MaxJobs :
         ThreadReturn(k) /\ UNCHANGED <<splitVars, classifyVars, runVars>>
    \/ on_finished /\ UNCHANGED <<splitVars, classifyVars, runVars>>
    \/ LoadingRejected /\ UNCHANGED <<splitVars, classifyVars, runVars>>
    \/ WaitAndCheck /\ UNCHANGED <<splitVars, classifyVars, runVars>>
    \/ PreviewAccept /\ UNCHANGED <<splitVars, classifyVars, runVars>>
    \/ PreviewReject /\ UNCHANGED <<splitVars, classifyVars, runVars>>
    \/ Retry /\ UNCHANGED <<splitVars, classifyVars, runVars>>

MainSpec == MainInit /\ [][MainNext]_vars

(***************************************************************************)
(* Properties of split_pdf (SplitSpec).                                    *)
(***************************************************************************)
SplitCompleted == sp_pc = "returned" /\ split_outcome = "complete"

\* C1: when split_pdf runs to completion on a document of N >= 2 pages, the
\* written parts are contiguous, do not overlap and cover exactly pages 1..N:
\* the first starts at page 1, each next one starts right after the previous
\* one ends, and the last ends at page N.
C1_PartsPartitionPages ==
    SplitCompleted =>
        /\ Len(split_files) >= 1
        /\ split_files[1].lo = 1
        /\ \A i \in 1 .. Len(split_files) : split_files[i].lo <= split_files[i].hi
        /\ \A i \in 1 .. Len(split_files) - 1 :
             split_files[i + 1].lo = split_files[i].hi + 1
        /\ split_files[Len(split_files)].hi = total_pages_split

C1_Witness ==
    /\ SplitCompleted
    /\ total_pages_split = MaxPages
    /\ split_files # <<>>

\* C2: every written part of more than one page has a serialized size of at
\* most the 5 MB budget.
C2_MultiPagePartsWithinBudget ==
    \A i \in 1 .. Len(split_files) :
        split_files[i].hi > split_files[i].lo => split_files[i].size <= Budget

NothingWritten ==
    /\ split_files = <<>>
    /\ nextTemp = 0
    /\ tempFiles = {}
    /\ \A n \in Names : fs[n] # "part"

\* C3 as stated: split_pdf on a document of fewer than 2 pages ends with the
\* insufficient-pages outcome, having produced no part, no temporary part file
\* and no output file.
C3_FewPagesInsufficient ==
    (sp_pc # "start" /\ Len(pageSize) < MinSplitPages) =>
        /\ sp_pc = "returned"
        /\ split_outcome = "insufficient"
        /\ NothingWritten

\* C3 as amended: split_pdf on a document of fewer than 2 pages returns having
\* produced no part, no temporary part file and no output file; its outcome
\* is insufficient-pages, unless the document is within the budget and the
\* user declined the "File Size OK" confirmation, which comes first.
C3_FewPagesNothingWritten ==
    (sp_pc # "start" /\ Len(pageSize) < MinSplitPages) =>
        /\ sp_pc = "returned"
        /\ NothingWritten
        /\ \/ split_outcome = "insufficient"
           \/ split_outcome = "declined" /\ total_size <= Budget

C3_Witness ==
    /\ sp_pc = "returned"
    /\ Len(pageSize) = 1
    /\ split_outcome = "insufficient"
    /\ total_size > Budget

(***************************************************************************)
(* Properties of CompressThread.run (JobSpec, JobFairSpec).                *)
(***************************************************************************)
IsFinished(e) == e.kind = "finished"
IsProgress(e) == e.kind = "progress"

ResultEvents == SelectSeq(events, IsFinished)
ProgressEvents == SelectSeq(events, IsProgress)

\* The job's state as a caller sees it through the signals.
JobState ==
    IF ResultEvents = <<>> THEN "Running"
    ELSE IF ResultEvents[1].success THEN "Succeeded" ELSE "Failed"

ResultOK ==
    /\ Len(ResultEvents) = 1
    /\ IF ResultEvents[1].success
       THEN out_file = "nonempty"
       ELSE ResultEvents[1].detail # ""

\* C4: for every resolution and every child that exits, a started run
\* eventually returns having emitted exactly one result: success with the
\* output file present and not empty, or failure with a non-empty detail.
C4_EventuallyOneResult ==
    (pc = "started" /\ dpi \in MinDpi .. MaxDpi) ~> (pc = "returned" /\ ResultOK)

C4_Witness ==
    /\ pc = "returned"
    /\ ResultOK
    /\ ResultEvents[1].success
    /\ dpi = MaxDpi

\* C5: the finished signal is emitted exactly once per run, on every path, and
\* it is the last signal of the run: no progress event follows it.
C5_OneResultLast ==
    /\ Len(ResultEvents) <= 1
    /\ \A i \in 1 .. Len(events) : IsFinished(events[i]) => i = Len(events)
    /\ pc \in {"finally", "returned"} <=> Len(ResultEvents) = 1

C5_Witness ==
    /\ pc = "returned"
    /\ Len(events) >= 3
    /\ events[Len(events)].detail = DecodeError

\* C6: the currentPage values of the progress events of one run never decrease.
C6_CurrentPageNonDecreasing ==
    \A i, j \in 1 .. Len(ProgressEvents) :
        i < j => ProgressEvents[i].current <= ProgressEvents[j].current

\* C7: when a run succeeds and the total page count is known (non-zero), the
\* signal right before the success result is a progress event whose current
\* page equals the total.
C7_FinalProgressAtTotal ==
    \A i \in 1 .. Len(events) :
        (IsFinished(events[i]) /\ events[i].success
            /\ (total_pages > 0 \/ ProgressEvents # <<>>)) =>
        /\ i > 1
        /\ IsProgress(events[i - 1])
        /\ events[i - 1].current = events[i - 1].total
        /\ events[i - 1].total = total_pages

C7_Witness ==
    /\ JobState = "Succeeded"
    /\ Len(ProgressEvents) >= 3
    /\ current_page < total_pages

TotalsNonDecreasing(evs) ==
    \A i, j \in 1 .. Len(evs) :
        (i < j /\ IsProgress(evs[i]) /\ IsProgress(evs[j])) =>
            evs[i].total <= evs[j].total

\* C8: within a run the total page count never decreases: the totals of
\* successive progress events are non-decreasing, every progress event
\* carries the current total, and a step changes the total only to a greater
\* value.
C8_TotalNeverDecreases ==
    [][/\ total_pages' >= total_pages
       /\ TotalsNonDecreasing(events')
       /\ \A i \in (Len(events) + 1) .. Len(events') :
            IsProgress(events'[i]) => events'[i].total = total_pages']_vars

C8_Witness ==
    /\ lines_read >= 2
    /\ \E i, j \in 1 .. Len(ProgressEvents) :
         i < j /\ 0 < ProgressEvents[i].total
               /\ ProgressEvents[i].total < ProgressEvents[j].total

\* C9: a run during which cancellation was requested ends in the Cancelled
\* state with the child terminated and no staged input left.
C9_CancelReachesCancelled ==
    (cancel_requested /\ pc = "returned") =>
        /\ JobState = "Cancelled"
        /\ process # "alive"
        /\ temp_input_file = "absent"

C11_ExitEvaluationOrder ==
    [][/\ (pc = "exited" /\ pc' = "finally") =>
            LET r == events'[Len(events')]
            IN  /\ IsFinished(r)
                /\ return_code # 0 => (~r.success /\ r.detail = ExitError)
                /\ (return_code = 0 /\ out_file = "absent") =>
                       (~r.success /\ r.detail = NotCreatedError)
                /\ (return_code = 0 /\ out_file = "empty") =>
                       (~r.success /\ r.detail = EmptyError)
                /\ (return_code = 0 /\ out_file = "nonempty") => r.success
       /\ JobState' = "Succeeded" => (return_code' = 0 /\ out_file' = "nonempty")
      ]_vars

C11_Witness ==
    /\ pc = "finally"
    /\ return_code # 0
    /\ out_file = "absent"
    /\ JobState = "Failed"
    /\ ResultEvents[1].detail = ExitError


(***************************************************************************)
(* Properties of parse_progress_line (ClassifySpec).                       *)
(***************************************************************************)
\* The forms of a line, read off its tokens.
ThroughPlaces(l) ==
    {i \in 1 .. Len(l) - 4 :
        /\ Lower(l[i].w) = "processing"
        /\ Lower(l[i + 1].w) = "pages"
        /\ IsNum(l[i + 2])
        /\ Lower(l[i + 3].w) = "through"
        /\ IsNum(l[i + 4])}

PagePlaces(l) ==
    {i \in 1 .. Len(l) - 1 : Lower(l[i].w) = "page" /\ IsNum(l[i + 1])}

DscPlaces(l) ==
    {i \in 1 .. Len(l) - 1 :
        /\ Lower(l[i].w) = "%%page:"
        /\ \E j \in (i + 1) .. Len(l) :
             IsNum(l[j]) /\ \A k \in (i + 1) .. (j - 1) : IsGap(l[k])}

PageGapPlaces(l) ==
    {i \in 1 .. Len(l) - 1 :
        /\ Lower(l[i].w) = "page"
        /\ \E j \in (i + 1) .. Len(l) :
             IsNum(l[j]) /\ \A k \in (i + 1) .. (j - 1) : IsGap(l[k])}

\* The number that follows place i, gaps skipped.
NumberAfter(l, i) ==
    ParseInt(l[CHOOSE j \in (i + 1) .. Len(l) :
                 IsNum(l[j]) /\ \A k \in (i + 1) .. (j - 1) : IsGap(l[k])].d)

TotalPages(n) == [kind |-> "TotalPages", n |-> n]
CurrentPage(n) == [kind |-> "CurrentPage", n |-> n]
NoSignal == [kind |-> "NoSignal", n |-> 0]

CurrentPageFor(n, knownTotal) ==
    CurrentPage(IF knownTotal > 0
                THEN (IF n < knownTotal THEN n ELSE knownTotal)
                ELSE n)

\* The classification as the claim states it: two families and NoSignal.
ClassifiedTwoFamilies(l, knownTotal) ==
    IF ThroughPlaces(l) # {}
    THEN TotalPages(ParseInt(l[Min(ThroughPlaces(l)) + 4].d))
    ELSE IF PagePlaces(l) # {}
    THEN CurrentPageFor(ParseInt(l[Min(PagePlaces(l)) + 1].d), knownTotal)
    ELSE NoSignal

\* The classification with the secondary page patterns as a third family.
ClassifiedThreeFamilies(l, knownTotal) ==
    IF ThroughPlaces(l) # {}
    THEN TotalPages(ParseInt(l[Min(ThroughPlaces(l)) + 4].d))
    ELSE IF PagePlaces(l) # {}
    THEN CurrentPageFor(ParseInt(l[Min(PagePlaces(l)) + 1].d), knownTotal)
    ELSE IF DscPlaces(l) # {}
    THEN CurrentPageFor(NumberAfter(l, Min(DscPlaces(l))), knownTotal)
    ELSE IF PageGapPlaces(l) # {}
    THEN CurrentPageFor(NumberAfter(l, Max(PageGapPlaces(l))), knownTotal)
    ELSE NoSignal

\* What a call of parse_progress_line does when its line classifies as c:
\* an accepted total is stored and announced, a current page is stored and,
\* with a known total, announced; anything else leaves the job as it was.
StepActsOn(c) ==
    CASE c.kind = "TotalPages" ->
           IF c.n > total_pages
           THEN /\ total_pages' = c.n
                /\ current_page' = current_page
                /\ events' = Append(events, Progress(0, c.n))
           ELSE UNCHANGED <<total_pages, current_page, events>>
      [] c.kind = "CurrentPage" ->
           /\ total_pages' = total_pages
           /\ current_page' = c.n
           /\ events' = IF total_pages > 0
                        THEN Append(events, Progress(c.n, total_pages))
                        ELSE events
      [] OTHER -> UNCHANGED <<total_pages, current_page, events>>

\* C12 as stated: a line of the form "processing pages X through N" is
\* TotalPages(N), accepted only if N exceeds the known total; any other line
\* containing "Page N" is CurrentPage(min(N, known total)), or CurrentPage(N)
\* when the total is unknown; every other line is NoSignal.
C12_TwoFamiliesOnly ==
    [][lines_read' = 1 => StepActsOn(ClassifiedTwoFamilies(gs_line, total_pages))]_vars

\* C12 as amended: as stated for the two forms; a line of neither form that
\* matches a secondary pattern ("%%Page: N", or "page" followed by more white
\* space and N) is CurrentPage in the same way; every other line is NoSignal.
C12_ThreeFamilies ==
    [][lines_read' = 1 => StepActsOn(ClassifiedThreeFamilies(gs_line, total_pages))]_vars

C12_Witness ==
    /\ lines_read = 1
    /\ gs_line = <<Word("Page"), Digits(<<7>>)>>
    /\ total_pages = 42
    /\ current_page = 7
    /\ events = <<Progress(7, 42)>>

\* C13: classifying a line changes no job state and emits nothing: the call of
\* parse_progress_line leaves the stored total, the stored current page and
\* the emitted signals as they were.
C13_ClassificationPure ==
    [][lines_read' = 1 => UNCHANGED <<total_pages, current_page, events>>]_vars


\* C15: when the copy to the staged working file fails, the job reports a
\* failure whose detail is "staging failed: " followed by the cause, and the
\* engine is not launched in that run.
C15_StagingFailureDetail ==
    [][/\ (pc = "counted" /\ pc' = "finally") =>
            /\ events'[Len(events')] = Finished(FALSE, "staging failed: " \o CopyError)
            /\ launches' = 0
       /\ (pc = "finally" /\ launches = 0) => launches' = 0
      ]_vars


\* C17: for a document of N >= 2 pages split_pdf terminates, and the outer loop
\* ends after at most N parts; so it never holds more than N parts.
C17_AtMostNParts ==
    Len(pageSize) >= MinSplitPages => Len(split_files) <= Len(pageSize)

\* C18: while a part is built, a page is added to a part that already holds a
\* page only while the part's accumulated size is below the 4.5 MB margin.
C18_GreedyStopsAtMargin ==
    [][(sp_pc = "outer" /\ nextTemp' > nextTemp) =>
          LET r == InnerLoop(current_part, 0, 0)
          IN  \A k \in 1 .. r.page_count - 1 :
                 SumSizes(pageSize, current_part, current_part + k) < Margin
      ]_vars


\* C19: teardown terminates a child that is still alive, waits a bounded grace
\* period and then kills it; so once run has returned the child is not alive.
C19_ChildDeadAfterReturn ==
    pc = "returned" => process # "alive"

\* C20: the finally block emits nothing: the result the run had when it entered
\* teardown is the result it has when it returns, whether or not cleanup failed.
C20_TeardownKeepsResult ==
    [][pc = "finally" =>
          /\ ResultEvents' = ResultEvents
          /\ Len(ResultEvents') = 1
          /\ events'[Len(events')] = events[Len(events)]
      ]_vars

C20_Witness ==
    /\ pc = "returned"
    /\ cleanup_log = {ProcessCleanupError, RemoveError}
    /\ Len(ResultEvents) = 1
    /\ ResultEvents[1].detail = DecodeError


\* The threads whose run has not returned.
RunningThreads ==
    {k \in 1 .. MaxJobs : threads[k] \in {"running", "launched", "reported"}}

\* C14: across the first run and every retry, at most one CompressThread that
\* writes the temporary output path is running at any moment.
C14_OneJobOnOutputPath ==
    /\ Cardinality(RunningThreads) <= 1
    /\ RunningThreads \subseteq {thread}

C14_Witness ==
    /\ thread = 2
    /\ threads[1] = "returned"
    /\ threads[2] = "running"

\* C16: the preview dialog, which offers split_pdf, is open only when the most
\* recent job has ended and reported Success; never after a Failed job.
C16_PreviewOnlyAfterSuccess ==
    main_pc \in {"preview", "retry"} =>
        /\ thread >= 1
        /\ outcome[thread] = "Success"
        /\ threads[thread] = "returned"

C16_Witness ==
    /\ main_pc = "preview"
    /\ thread = 2
    /\ outcome = [k \in 1 .. MaxJobs |-> IF k <= 2 THEN "Success" ELSE "none"]


\* C21: a line that matches none of the page patterns, even one that contains
\* "processing" or "writing", leaves the stored total and current page as they
\* were and emits no progress event.
C21_UnmatchedLineChangesNothing ==
    [][(lines_read' = 1 /\ FirstMatch(gs_line) = 0) =>
          UNCHANGED <<total_pages, current_page, events>>]_vars

C21_Witness ==
    /\ lines_read = 1
    /\ gs_line = <<Word("Processing"), Word("fonts")>>
    /\ HasKeyword(gs_line)
    /\ total_pages = 2
    /\ current_page = 1
    /\ events = <<>>


\* C22: a run starts the engine at most once, whatever its outcome; an engine
\* is started only by a thread the controller has started, and a thread is
\* started only after every earlier thread has reported its result.
C22_NoInternalRetry ==
    \A k \in 1 .. MaxJobs :
       /\ launched[k] <= 1
       /\ launched[k] > 0 => k <= thread
       /\ threads[k] # "unstarted" =>
             \A j \in 1 .. k - 1 : outcome[j] # "none" /\ launched[j] <= 1

C22_Witness ==
    /\ launched[1] = 1
    /\ outcome[1] = "Success"
    /\ launched[2] = 1
    /\ outcome[2] = "Failed"
    /\ threads[2] = "returned"

\* Inside the detailed run, subprocess.Popen is called at most once.
RunLaunchesOnce == launches <= 1


\* C23: split_pdf on a document within the 5 MB budget asks for confirmation
\* (and does not ask otherwise); when the caller declines, it returns with no
\* part and no file; when the caller confirms, it goes on as for a document
\* over the budget: to the page check and then into the split loop.
C23_UnderBudgetConfirmed ==
    sp_pc # "start" =>
        /\ total_size <= Budget <=> resp \in {"Yes", "No"}
        /\ resp = "No" <=> split_outcome = "declined"
        /\ resp = "No" => sp_pc = "returned" /\ NothingWritten
        /\ (resp # "No" /\ Len(pageSize) < MinSplitPages) =>
              sp_pc = "returned" /\ split_outcome = "insufficient"
        /\ (resp # "No" /\ Len(pageSize) >= MinSplitPages) =>
              split_outcome \in {"none", "complete", "cancelled"}

C23_Witness ==
    /\ SplitCompleted
    /\ resp = "Yes"
    /\ total_size <= Budget
    /\ Len(split_files) = 1
    /\ split_files[1].hi = Len(pageSize)

C23_WitnessDeclined ==
    /\ sp_pc = "returned"
    /\ resp = "No"
    /\ Len(pageSize) >= MinSplitPages


\* C24: every progress event of a job, for every page count the page counter
\* reported (0 included) and every sequence of engine lines, has totalPages > 0
\* and 0 <= currentPage <= totalPages; so the percentage the controller
\* computes from it divides by a positive total and lies in 0..100.
C24_ProgressEventsInRange ==
    \A i \in 1 .. Len(ProgressEvents) :
       /\ ProgressEvents[i].total > 0
       /\ ProgressEvents[i].current >= 0
       /\ ProgressEvents[i].current <= ProgressEvents[i].total
       /\ percent(ProgressEvents[i].current, ProgressEvents[i].total) \in 0 .. 100

C24_Witness ==
    /\ pc = "returned"
    /\ Len(ProgressEvents) >= 3
    /\ ProgressEvents[1] = Progress(0, 3)
    /\ \E i \in 1 .. Len(ProgressEvents) : ProgressEvents[i] = Progress(3, 3)


\* C25: when split_pdf returns, every temporary part file it created has been
\* moved to an output path or deleted: none is left on disk.
C25_NoTempPartLeft ==
    sp_pc = "returned" => tempFiles = {}


\* C26: whenever main has returned after starting at least one job (the job
\* failed, the save was accepted, the overwrite prompt was cancelled, the
\* preview was rejected with or without a retry, the retry failed, the DPI
\* dialog of the retry was dismissed), no file is left at the temporary
\* output path: it was moved to the final path or removed.
C26_TempOutputGoneAtReturn ==
    (main_pc = "done" /\ thread >= 1) =>
        /\ temp_output_file = "absent"
        /\ written_by = 0

C26_Witness ==
    /\ main_pc = "done"
    /\ thread = 2
    /\ outcome[1] = "Success"
    /\ outcome[2] = "Failed"
    /\ written_by = 0
    /\ threads[2] = "returned"
    /\ launched[2] = 1

\* C27: with no file at the temporary output path when main begins, there is
\* none at the moment a CompressThread is started, first run or retry; so a
\* thread that reports Success does so on a file its own engine wrote.
C27_FreshOutputPerJob ==
    [][/\ thread' # thread => temp_output_file = "absent"
       /\ \A k \in 1 .. MaxJobs :
            (outcome[k] = "none" /\ outcome'[k] = "Success") => written_by' = k
      ]_vars

C27_Witness ==
    /\ thread = 2
    /\ outcome[1] = "Success"
    /\ outcome[2] = "Success"
    /\ written_by = 2
    /\ main_pc = "preview"

====
